---- MODULE Spec2Model ----
(***************************************************************************)
(* Model of src/generate_stats.py: the GitHub statistics card generator.   *)
(*                                                                         *)
(* Spec      one run of main(): yearly contribution totals, personal       *)
(*           repositories, allow-listed stars, the two repository scans    *)
(*           (contributor statistics with the 202 polling loop, languages),*)
(*           rendering and the two file writes.                            *)
(* SpecLangs generate_langs_svg applied to bounded language tallies.       *)
(*                                                                         *)
(* Python dicts are insertion ordered: a language tally is a sequence of   *)
(* [lang, size] records with distinct lang fields.  Floating point values  *)
(* of generate_langs_svg are kept as exact rationals over the denominator  *)
(* total (field names ending in _num); the formatted fields (_fmt) are the *)
(* decimal strings the f-strings print, as integers in tenths/hundredths.  *)
(***************************************************************************)
EXTENDS Integers, Sequences, FiniteSets, TLC

\* ------------------------------------------------------------------ bounds
MaxYears == 1          \* calendar years from START_YEAR to the current year
MaxPersonal == 2       \* length of the list returned by get_user_repos
MaxLangs == 11         \* languages in a tally handed to generate_langs_svg
MaxSize == 400         \* largest byte size in such a tally

\* ------------------------------------------------------- program constants
USERNAME == "PeterBenc"
START_YEAR == 2016
TopN == 10
MaxAttempts == 3
card_width == 380
bar_x == 30
bar_width == card_width - 60
padding_top == 76
row_step == 22

\* ----------------------------------------------------------------- helpers
Max(x, y) == IF x >= y THEN x ELSE y

Min(x, y) == IF x <= y THEN x ELSE y

RECURSIVE SumSeq(_)
SumSeq(s) == IF s = <<>> THEN 0 ELSE Head(s) + SumSeq(Tail(s))

\* nearest integer to n/d (n >= 0, d > 0), ties to even: what '.1f' / '.2f'
\* print for an exactly representable value
RoundHalfEven(n, d) ==
    LET q == n \div d
        r == n % d
    IN  IF 2 * r < d THEN q
        ELSE IF 2 * r > d THEN q + 1
        ELSE IF q % 2 = 0 THEN q ELSE q + 1

\* ------------------------------------------------------ generate_langs_svg
Sizes(items) == [k \in 1..Len(items) |-> items[k].size]

\* sorted(..., key=size, reverse=True) is stable: equal sizes keep dict order
RECURSIVE InsertDesc(_, _)
InsertDesc(x, s) ==
    IF s = <<>> THEN <<x>>
    ELSE IF Head(s).size >= x.size THEN <<Head(s)>> \o InsertDesc(x, Tail(s))
    ELSE <<x>> \o s

RECURSIVE SortDesc(_, _)
SortDesc(items, acc) ==
    IF items = <<>> THEN acc
    ELSE SortDesc(Tail(items), InsertDesc(Head(items), acc))

sorted_langs(languages) ==
    LET all == SortDesc(languages, <<>>)
    IN  SubSeq(all, 1, Min(TopN, Len(all)))

\* a slip: the shares taken of the whole tally instead of the selection
SelectedTotal_whole_tally(languages) == SumSeq(Sizes(languages))

\* total = sum(v for _, v in sorted_langs)
SelectedTotal(languages) == SumSeq(Sizes(sorted_langs(languages)))

\* a slip: the guard against an empty selection left out
IsZeroTotal_never(total) == FALSE

IsZeroTotal(total) == total = 0

\* a slip: the minimum width of one unit left out
WidthNum_unclamped(size, total) == size * bar_width

\* width = max((size / total) * bar_width, 1), times total
WidthNum(size, total) == Max(size * bar_width, total)

\* pct = (size / total) * 100 printed with '.2f', in hundredths of a percent
PctFmt(size, total) == RoundHalfEven(size * 10000, total)

RECURSIVE BarSegments(_, _, _)
BarSegments(sorted, total, x_offset_num) ==
    IF sorted = <<>> THEN <<>>
    ELSE LET width_num == WidthNum(Head(sorted).size, total)
         IN  <<[lang |-> Head(sorted).lang,
                x_num |-> x_offset_num,
                width_num |-> width_num,
                x_fmt |-> RoundHalfEven(10 * x_offset_num, total),
                width_fmt |-> RoundHalfEven(10 * width_num, total)]>>
             \o BarSegments(Tail(sorted), total, x_offset_num + width_num)

Labels(sorted, total) ==
    [k \in 1..Len(sorted) |->
        [lang |-> sorted[k].lang,
         pct_fmt |-> PctFmt(sorted[k].size, total),
         x |-> bar_x + ((k - 1) % 2) * (bar_width \div 2),
         y |-> padding_top + ((k - 1) \div 2) * row_step]]

EmptySvg == [kind |-> "empty", raised |-> "none", total |-> 0,
             bars |-> <<>>, labels |-> <<>>]

\* size / total with total = 0 raises ZeroDivisionError: the second test
\* below is Python's, taken when the first lets a zero total through
generate_langs_svg(languages) ==
    LET sorted == sorted_langs(languages)
        total == SelectedTotal(languages)
    IN  IF IsZeroTotal(total) THEN EmptySvg
        ELSE IF total = 0
             THEN [kind |-> "none", raised |-> "ZeroDivisionError",
                   total |-> total, bars |-> <<>>, labels |-> <<>>]
             ELSE [kind |-> "card", raised |-> "none", total |-> total,
                   bars |-> BarSegments(sorted, total, bar_x * total),
                   labels |-> Labels(sorted, total)]

\* ------------------------------------------------------ generate_stats_svg
\* f"{n:,}": the decimal digits in groups of three, most significant first
RECURSIVE format_number(_)
format_number(n) ==
    IF n < 1000 THEN <<n>> ELSE format_number(n \div 1000) \o <<n % 1000>>

generate_stats_svg(st) ==
    LET items == <<[label |-> "Stars", value |-> format_number(st.stars)],
                   [label |-> "All-time Contributions",
                    value |-> format_number(st.commits)],
                   [label |-> "Total PRs", value |-> format_number(st.prs)],
                   [label |-> "Lines of Code Changed",
                    value |-> format_number(st.lines_changed)]>>
    IN  [k \in 1..Len(items) |->
            [label |-> items[k].label, value |-> items[k].value,
             y |-> 60 + (k - 1) * 34]]

\* ----------------------------------------------------------- configuration
\* the head of each list of the source, keeping the overlap between them
STAR_REPOS == <<"vacuumlabs/adalite", "nufi-official/nufi">>

CONTRIBUTION_REPOS == <<"nufi-official/nufi", "trezor/trezor-suite">>

CurrentYear == START_YEAR + MaxYears - 1

\* ---------------------------------------------------------------- remote
\* What the remote API may answer.  A GraphQL answer is a transport failure,
\* an HTTP error status, a body with "errors" and no "data" key, a body whose
\* "data" is null, a body whose top field (user / repository) is null, or a
\* full answer.
GraphqlFailures ==
    {"transport_error", "http_error", "no_data_key", "null_data", "null_field"}

RemoteStars(repo) ==
    CASE repo = "vacuumlabs/adalite" -> 3
      [] repo = "nufi-official/nufi" -> 2
      [] repo = "PeterBenc/PeterBenc" -> 1
      [] OTHER -> 0

PersonalNames == {"", "PeterBenc/PeterBenc", "nufi-official/nufi"}

Node(n) == [nameWithOwner |-> n, stargazerCount |-> RemoteStars(n)]

RECURSIVE SeqsUpTo(_, _)
SeqsUpTo(S, n) ==
    IF n = 0 THEN {<<>>}
    ELSE LET shorter == SeqsUpTo(S, n - 1)
         IN  shorter \cup {Append(s, x) : s \in shorter, x \in S}

NodeLists == SeqsUpTo({Node(n) : n \in PersonalNames}, MaxPersonal)

YearPayload ==
    [totalCommitContributions |-> 2, restrictedContributionsCount |-> 1,
     totalPullRequestContributions |-> 1, totalIssueContributions |-> 1]

ZeroPayload ==
    [totalCommitContributions |-> 0, restrictedContributionsCount |-> 0,
     totalPullRequestContributions |-> 0, totalIssueContributions |-> 0]

\* blank: the payload field of an answer that carries none
GraphqlResponses(payloads, blank) ==
    {[kind |-> k, payload |-> blank] : k \in GraphqlFailures}
    \cup {[kind |-> "ok", payload |-> p] : p \in payloads}

\* contributor lists of /stats/contributors
NoAuthor == "<None>"

ContributorsWithUser ==
    <<[author |-> NoAuthor, weeks |-> <<[a |-> 5, d |-> 5]>>],
      [author |-> "someone", weeks |-> <<[a |-> 7, d |-> 0]>>],
      [author |-> "PeterBenc",
       weeks |-> <<[a |-> 0, d |-> 1], [a |-> 2, d |-> 0]>>]>>

ContributorsWithoutUser ==
    <<[author |-> "someone", weeks |-> <<[a |-> 7, d |-> 0]>>]>>

StatsResponses ==
    {[error |-> TRUE, status_code |-> 0, json |-> "none", contributors |-> <<>>]}
    \cup {[error |-> FALSE, status_code |-> c, json |-> "none",
           contributors |-> <<>>] : c \in {202, 404}}
    \cup {[error |-> FALSE, status_code |-> 200, json |-> j,
           contributors |-> <<>>] : j \in {"invalid", "object"}}
    \cup {[error |-> FALSE, status_code |-> 200, json |-> "list",
           contributors |-> c] :
             c \in {ContributorsWithUser, ContributorsWithoutUser}}

LangBodies ==
    {<<>>,
     <<[lang |-> "TypeScript", size |-> 2]>>,
     <<[lang |-> "Python", size |-> 1], [lang |-> "TypeScript", size |-> 1]>>}

LangResponses ==
    {[error |-> TRUE, status_code |-> 0, json |-> "none", items |-> <<>>]}
    \cup {[error |-> FALSE, status_code |-> 404, json |-> "none",
           items |-> <<>>]}
    \cup {[error |-> FALSE, status_code |-> 200, json |-> j, items |-> <<>>] :
             j \in {"invalid", "list"}}
    \cup {[error |-> FALSE, status_code |-> 200, json |-> "dict",
           items |-> b] : b \in LangBodies}

\* --------------------------------------------------------------- fetchers
Raised == [raised |-> TRUE, value |-> <<>>]

Return(v) == [raised |-> FALSE, value |-> v]

\* graphql(): raises on a transport failure or an error status; otherwise
\* data.get("data", {}): {} without the key, None for null, else the object
graphql(resp) ==
    IF resp.kind \in {"transport_error", "http_error"} THEN Raised
    ELSE IF resp.kind = "no_data_key" THEN Return("{}")
    ELSE IF resp.kind = "null_data" THEN Return("None")
    ELSE Return("object")

\* data.get(field, {}).get(...)...: None.get raises AttributeError
get_user_repos(resp) ==
    LET data == graphql(resp)
    IN  IF data.raised THEN Raised
        ELSE IF data.value = "None" THEN Raised
        ELSE IF data.value = "{}" THEN Return(<<>>)
        ELSE IF resp.kind = "null_field" THEN Raised
        ELSE Return(resp.payload)

ZeroYear == [commits |-> 0, prs |-> 0, issues |-> 0]

get_contributions_for_year(resp) ==
    LET data == graphql(resp)
    IN  IF data.raised THEN Raised
        ELSE IF data.value = "None" THEN Raised
        ELSE IF data.value = "{}" THEN Return(ZeroYear)
        ELSE IF resp.kind = "null_field" THEN Raised
        ELSE Return([commits |-> resp.payload.totalCommitContributions
                                 + resp.payload.restrictedContributionsCount,
                     prs |-> resp.payload.totalPullRequestContributions,
                     issues |-> resp.payload.totalIssueContributions])

get_repo_stars(resp) ==
    LET data == graphql(resp)
    IN  IF data.raised THEN Raised
        ELSE IF data.value = "None" THEN Raised
        ELSE IF data.value = "{}" THEN Return(0)
        ELSE IF resp.kind = "null_field" THEN Raised
        ELSE Return(resp.payload)

Lower(s) == IF s = "PeterBenc" THEN "peterbenc" ELSE s

RECURSIVE SumWeeks(_, _)
SumWeeks(weeks, key) ==
    IF weeks = <<>> THEN 0
    ELSE (IF key = "a" THEN Head(weeks).a ELSE Head(weeks).d)
         + SumWeeks(Tail(weeks), key)

\* the loop over the contributors: the first entry whose login is USERNAME
RECURSIVE ContributorLines(_)
ContributorLines(contributors) ==
    IF contributors = <<>> THEN <<0, 0>>
    ELSE LET c == Head(contributors)
         IN  IF c.author = NoAuthor THEN ContributorLines(Tail(contributors))
             ELSE IF Lower(c.author) = Lower(USERNAME)
                  THEN <<SumWeeks(c.weeks, "a"), SumWeeks(c.weeks, "d")>>
                  ELSE ContributorLines(Tail(contributors))

\* the code after the polling loop, for the response r the loop ended with
ParseStats(r) ==
    IF r.status_code # 200 THEN Return(<<0, 0>>)
    ELSE IF r.json = "invalid" THEN Raised
    ELSE IF r.json # "list" THEN Return(<<0, 0>>)
    ELSE Return(ContributorLines(r.contributors))

\* a slip: polling until the statistics are there
PollAgain_unbounded(status_code, attempts_made) == status_code = 202

\* for attempt in range(3): the loop goes round again on a 202 while
\* attempts are left
PollAgain(status_code, attempts_made) ==
    status_code = 202 /\ attempts_made < MaxAttempts

get_repo_languages(r) ==
    IF r.error THEN Raised
    ELSE IF r.status_code # 200 THEN Return(<<>>)
    ELSE IF r.json = "invalid" THEN Raised
    ELSE IF r.json = "list" THEN Raised
    ELSE Return(r.items)

\* ------------------------------------------------------------- aggregation
HasLang(tally, l) == \E k \in 1..Len(tally) : tally[k].lang = l

\* languages[lang] = languages.get(lang, 0) + bytes_count
AddLang(tally, item) ==
    IF HasLang(tally, item.lang)
    THEN [k \in 1..Len(tally) |->
            IF tally[k].lang = item.lang
            THEN [lang |-> item.lang, size |-> tally[k].size + item.size]
            ELSE tally[k]]
    ELSE Append(tally, item)

RECURSIVE MergeLangs(_, _)
MergeLangs(tally, items) ==
    IF items = <<>> THEN tally
    ELSE MergeLangs(AddLang(tally, Head(items)), Tail(items))

\* a slip: the languages of every scanned repository fetched
ShouldFetchLangs_always(a, d) == TRUE

ShouldFetchLangs(a, d) == a + d > 0

\* a slip: the allow-listed stars left out of the total
TotalStars_personal_only(personal, org) == personal

TotalStars(personal, org) == personal + org

RECURSIVE SumStargazers(_)
SumStargazers(nodes) ==
    IF nodes = <<>> THEN 0
    ELSE Head(nodes).stargazerCount + SumStargazers(Tail(nodes))

\* ------------------------------------------------------------------- state
VARIABLES
    pc,               \* position in main
    ret,              \* the scan loop a repository scan returns to
    year,             \* loop variable of get_all_time_contributions
    totals,           \* commits / prs / issues summed so far
    user_repos,       \* nodes returned by get_user_repos
    personal_stars, org_stars, total_stars,
    i,                \* index of the current loop (1-based)
    total_additions, total_deletions,
    languages,        \* the language tally
    seen_repos,
    cur,              \* repository being scanned
    polled,           \* status codes answered to the current stats call
    stats, stats_svg, langs_svg,
    files,            \* what exists under profile/
    core_failed,      \* history: an identity or yearly query failed
    abort_cause,      \* history: the call whose exception ended the run
    scan_log,         \* history: one entry per get_contributor_stats call
    star_log          \* history: one entry per get_repo_stars call

vars == <<pc, ret, year, totals, user_repos, personal_stars, org_stars,
          total_stars, i, total_additions, total_deletions, languages,
          seen_repos, cur, polled, stats, stats_svg, langs_svg, files,
          core_failed, abort_cause, scan_log, star_log>>

fetched == <<year, totals, user_repos, personal_stars, org_stars, total_stars>>

scan == <<total_additions, total_deletions, languages, seen_repos, cur,
          polled, scan_log>>

output == <<stats, stats_svg, langs_svg, files>>

NoStats == [stars |-> 0, commits |-> 0, prs |-> 0, issues |-> 0,
            lines_changed |-> 0]

Init ==
    /\ pc = "makedirs"
    /\ ret = "personal"
    /\ year = START_YEAR
    /\ totals = ZeroYear
    /\ user_repos = <<>>
    /\ personal_stars = 0
    /\ org_stars = 0
    /\ total_stars = 0
    /\ i = 1
    /\ total_additions = 0
    /\ total_deletions = 0
    /\ languages = <<>>
    /\ seen_repos = {}
    /\ cur = ""
    /\ polled = <<>>
    /\ stats = NoStats
    /\ stats_svg = <<>>
    /\ langs_svg = EmptySvg
    /\ files = [dir |-> FALSE, stats |-> FALSE, langs |-> FALSE]
    /\ core_failed = FALSE
    /\ abort_cause = "none"
    /\ scan_log = <<>>
    /\ star_log = <<>>

\* an uncaught exception ends the run
Abort(cause) ==
    /\ pc' = "aborted"
    /\ abort_cause' = cause

\* os.makedirs("profile", exist_ok=True)
MakeDirs ==
    /\ pc = "makedirs"
    /\ files' = [files EXCEPT !.dir = TRUE]
    /\ pc' = "year"
    /\ UNCHANGED <<ret, fetched, i, scan, stats, stats_svg, langs_svg,
                   core_failed, abort_cause, star_log>>

\* one iteration of the loop of get_all_time_contributions
FetchYear ==
    /\ pc = "year"
    /\ \E resp \in GraphqlResponses({YearPayload}, ZeroPayload) :
         LET year_data == get_contributions_for_year(resp)
         IN  /\ core_failed' = (core_failed \/ resp.kind # "ok")
             /\ IF year_data.raised
                THEN /\ Abort("contributions")
                     /\ UNCHANGED <<year, totals>>
                ELSE /\ totals' =
                          [commits |-> totals.commits + year_data.value.commits,
                           prs |-> totals.prs + year_data.value.prs,
                           issues |-> totals.issues + year_data.value.issues]
                     /\ year' = year + 1
                     /\ pc' = IF year = CurrentYear THEN "user_repos" ELSE "year"
                     /\ UNCHANGED abort_cause
    /\ UNCHANGED <<ret, user_repos, personal_stars, org_stars, total_stars, i,
                   scan, output, star_log>>

FetchUserRepos ==
    /\ pc = "user_repos"
    /\ \E resp \in GraphqlResponses(NodeLists, <<>>) :
         LET nodes == get_user_repos(resp)
         IN  /\ core_failed' = (core_failed \/ resp.kind # "ok")
             /\ IF nodes.raised
                THEN /\ Abort("user_repos")
                     /\ UNCHANGED <<user_repos, personal_stars>>
                ELSE /\ user_repos' = nodes.value
                     /\ personal_stars' = SumStargazers(nodes.value)
                     /\ pc' = "star"
                     /\ UNCHANGED abort_cause
    /\ i' = 1
    /\ UNCHANGED <<ret, year, totals, org_stars, total_stars, scan, output,
                   star_log>>

\* one iteration of the loop over STAR_REPOS
FetchStars ==
    /\ pc = "star"
    /\ i <= Len(STAR_REPOS)
    /\ \E resp \in GraphqlResponses({RemoteStars(STAR_REPOS[i])}, 0) :
         LET stars == get_repo_stars(resp)
         IN  IF stars.raised
             THEN /\ Abort("stars")
                  /\ UNCHANGED <<org_stars, i, star_log>>
             ELSE /\ org_stars' = org_stars + stars.value
                  /\ star_log' = Append(star_log,
                         [repo |-> STAR_REPOS[i], stars |-> stars.value])
                  /\ i' = i + 1
                  /\ UNCHANGED <<pc, abort_cause>>
    /\ UNCHANGED <<ret, year, totals, user_repos, personal_stars, total_stars,
                   scan, output, core_failed>>

EndStars ==
    /\ pc = "star"
    /\ i > Len(STAR_REPOS)
    /\ total_stars' = TotalStars(personal_stars, org_stars)
    /\ pc' = "personal"
    /\ i' = 1
    /\ UNCHANGED <<ret, year, totals, user_repos, personal_stars, org_stars,
                   scan, output, core_failed, abort_cause, star_log>>

\* the head of one scan: seen_repos.add(full_name), then the stats call
BeginScan(full_name, loop) ==
    /\ seen_repos' = seen_repos \cup {full_name}
    /\ cur' = full_name
    /\ polled' = <<>>
    /\ ret' = loop
    /\ pc' = "poll"
    /\ UNCHANGED <<fetched, i, total_additions, total_deletions, languages,
                   output, core_failed, abort_cause, scan_log, star_log>>

NextRepo ==
    /\ i' = i + 1
    /\ UNCHANGED <<ret, fetched, scan, output, core_failed, abort_cause,
                   star_log>>

\* for repo in user_repos
PersonalSkip ==
    /\ pc = "personal"
    /\ i <= Len(user_repos)
    /\ user_repos[i].nameWithOwner = ""
    /\ UNCHANGED pc
    /\ NextRepo

PersonalScan ==
    /\ pc = "personal"
    /\ i <= Len(user_repos)
    /\ user_repos[i].nameWithOwner # ""
    /\ BeginScan(user_repos[i].nameWithOwner, "personal")

EndPersonal ==
    /\ pc = "personal"
    /\ i > Len(user_repos)
    /\ pc' = "contrib"
    /\ i' = 1
    /\ UNCHANGED <<ret, fetched, scan, output, core_failed, abort_cause,
                   star_log>>

\* for repo_full in CONTRIBUTION_REPOS
ContribSkip ==
    /\ pc = "contrib"
    /\ i <= Len(CONTRIBUTION_REPOS)
    /\ CONTRIBUTION_REPOS[i] \in seen_repos
    /\ UNCHANGED pc
    /\ NextRepo

ContribScan ==
    /\ pc = "contrib"
    /\ i <= Len(CONTRIBUTION_REPOS)
    /\ CONTRIBUTION_REPOS[i] \notin seen_repos
    /\ BeginScan(CONTRIBUTION_REPOS[i], "contrib")

\* one request of get_contributor_stats and, when the polling ends with
\* it, the rest of the call and the additions to the totals
PollStats ==
    /\ pc = "poll"
    /\ \E r \in StatsResponses :
         IF r.error
         THEN /\ Abort("stats")
              /\ UNCHANGED <<polled, i, total_additions, total_deletions,
                             scan_log>>
         ELSE /\ polled' = Append(polled, r.status_code)
              /\ IF PollAgain(r.status_code, Len(polled) + 1)
                 THEN UNCHANGED <<pc, abort_cause, i, total_additions,
                                  total_deletions, scan_log>>
                 ELSE LET res == ParseStats(r)
                      IN  IF res.raised
                          THEN /\ Abort("stats")
                               /\ UNCHANGED <<i, total_additions,
                                              total_deletions, scan_log>>
                          ELSE LET a == res.value[1]
                                   d == res.value[2]
                               IN  /\ total_additions' = total_additions + a
                                   /\ total_deletions' = total_deletions + d
                                   /\ scan_log' = Append(scan_log,
                                        [repo |-> cur, a |-> a, d |-> d,
                                         fetched |-> FALSE, langs |-> <<>>])
                                   /\ IF ShouldFetchLangs(a, d)
                                      THEN /\ pc' = "langs"
                                           /\ UNCHANGED i
                                      ELSE /\ pc' = ret
                                           /\ i' = i + 1
                                   /\ UNCHANGED abort_cause
    /\ UNCHANGED <<ret, fetched, languages, seen_repos, cur, output,
                   core_failed, star_log>>

\* get_repo_languages and the merge into the tally
FetchLangs ==
    /\ pc = "langs"
    /\ \E r \in LangResponses :
         LET langs == get_repo_languages(r)
         IN  IF langs.raised
             THEN /\ Abort("langs")
                  /\ UNCHANGED <<languages, i, scan_log>>
             ELSE /\ languages' = MergeLangs(languages, langs.value)
                  /\ scan_log' = [scan_log EXCEPT ![Len(scan_log)] =
                         [@ EXCEPT !.fetched = TRUE, !.langs = langs.value]]
                  /\ pc' = ret
                  /\ i' = i + 1
                  /\ UNCHANGED abort_cause
    /\ UNCHANGED <<ret, fetched, total_additions, total_deletions, seen_repos,
                   cur, polled, output, core_failed, star_log>>

\* after the second loop: the stats dict and the two documents
Render ==
    /\ pc = "contrib"
    /\ i > Len(CONTRIBUTION_REPOS)
    /\ LET st == [stars |-> total_stars, commits |-> totals.commits,
                  prs |-> totals.prs, issues |-> totals.issues,
                  lines_changed |-> total_additions + total_deletions]
       IN  /\ stats' = st
           /\ stats_svg' = generate_stats_svg(st)
    /\ langs_svg' = generate_langs_svg(languages)
    /\ pc' = "write_stats"
    /\ UNCHANGED <<ret, fetched, i, scan, files, core_failed, abort_cause,
                   star_log>>

\* a slip: stats.svg written as soon as the personal scan is over
WriteStats_before_contrib_scan ==
    /\ pc = "personal"
    /\ i > Len(user_repos)
    /\ files' = [files EXCEPT !.stats = TRUE]
    /\ pc' = "contrib"
    /\ i' = 1
    /\ UNCHANGED <<ret, fetched, scan, stats, stats_svg, langs_svg,
                   core_failed, abort_cause, star_log>>

\* with open("profile/stats.svg", "w"): the open may fail
WriteStats ==
    /\ pc = "write_stats"
    /\ \/ /\ files' = [files EXCEPT !.stats = TRUE]
          /\ pc' = "write_langs"
          /\ UNCHANGED abort_cause
       \/ /\ Abort("write")
          /\ UNCHANGED files
    /\ UNCHANGED <<ret, fetched, i, scan, stats, stats_svg, langs_svg,
                   core_failed, star_log>>

WriteLangs ==
    /\ pc = "write_langs"
    /\ \/ /\ files' = [files EXCEPT !.langs = TRUE]
          /\ pc' = "done"
          /\ UNCHANGED abort_cause
       \/ /\ Abort("write")
          /\ UNCHANGED files
    /\ UNCHANGED <<ret, fetched, i, scan, stats, stats_svg, langs_svg,
                   core_failed, star_log>>

Next ==
    \/ MakeDirs
    \/ FetchYear
    \/ FetchUserRepos
    \/ FetchStars
    \/ EndStars
    \/ PersonalSkip
    \/ PersonalScan
    \/ EndPersonal
    \/ ContribSkip
    \/ ContribScan
    \/ PollStats
    \/ FetchLangs
    \/ Render
    \/ WriteStats
    \/ WriteLangs

Spec == Init /\ [][Next]_vars

\* -------------------------------------- generate_langs_svg on its own
MaxShort == 4          \* length of the tallies drawn from all of ShortSizes

LangNames ==
    <<"TypeScript", "JavaScript", "HTML", "CSS", "Python", "Rust", "Solidity",
      "Shell", "Nix", "Haskell", "C", "C++", "Go", "Java", "Dockerfile",
      "SCSS">>

LongSizes == {1, MaxSize}

ShortSizes == {0, 1, 2, MaxSize}

TallyOf(f) == [k \in DOMAIN f |-> [lang |-> LangNames[k], size |-> f[k]]]

Tallies ==
    UNION {{TallyOf(f) : f \in [1..n -> LongSizes]} : n \in 0..MaxLangs}
    \cup UNION {{TallyOf(f) : f \in [1..n -> ShortSizes]} : n \in 0..MaxShort}

InitLangs ==
    /\ pc = "langs_card"
    /\ languages \in Tallies
    /\ ret = "personal"
    /\ year = START_YEAR
    /\ totals = ZeroYear
    /\ user_repos = <<>>
    /\ personal_stars = 0
    /\ org_stars = 0
    /\ total_stars = 0
    /\ i = 1
    /\ total_additions = 0
    /\ total_deletions = 0
    /\ seen_repos = {}
    /\ cur = ""
    /\ polled = <<>>
    /\ stats = NoStats
    /\ stats_svg = <<>>
    /\ langs_svg = EmptySvg
    /\ files = [dir |-> FALSE, stats |-> FALSE, langs |-> FALSE]
    /\ core_failed = FALSE
    /\ abort_cause = "none"
    /\ scan_log = <<>>
    /\ star_log = <<>>

RenderLangs ==
    /\ pc = "langs_card"
    /\ langs_svg' = generate_langs_svg(languages)
    /\ pc' = "rendered"
    /\ UNCHANGED <<ret, fetched, i, scan, stats, stats_svg, files,
                   core_failed, abort_cause, star_log>>

NextLangs == RenderLangs

SpecLangs == InitLangs /\ [][NextLangs]_vars

\* ================================================================ claims
Abs(x) == IF x < 0 THEN -x ELSE x

SizeIn(tally, l) ==
    IF HasLang(tally, l)
    THEN (CHOOSE item \in {tally[k] : k \in 1..Len(tally)} : item.lang = l).size
    ELSE 0

LangsOf(tally) == {tally[k].lang : k \in 1..Len(tally)}

Rendered == pc = "rendered"

IsCard == Rendered /\ langs_svg.kind = "card"

\* the languages shown, and the sum of their sizes in the tally
Shown == LangsOf(langs_svg.labels)

ShownTotal == SumSeq([k \in 1..Len(langs_svg.labels) |->
                        SizeIn(languages, langs_svg.labels[k].lang)])

PctSum == SumSeq([k \in 1..Len(langs_svg.labels) |->
                    langs_svg.labels[k].pct_fmt])

\* C7: a rendered languages card lists min(10, number of languages) distinct
\* languages of the tally, in descending order of size, none of the languages
\* left out being larger than one shown; each printed percentage is
\* size * 100 / (sum of the sizes shown) to the nearest hundredth, and the
\* printed percentages add up to 100% within half a hundredth per label.
C7_TopTenShares ==
    IsCard =>
      LET labels == langs_svg.labels
          n == Len(labels)
      IN  /\ n = Min(TopN, Len(languages))
          /\ Cardinality(Shown) = n
          /\ Shown \subseteq LangsOf(languages)
          /\ \A k \in 1..(n - 1) :
               SizeIn(languages, labels[k].lang)
                 >= SizeIn(languages, labels[k + 1].lang)
          /\ \A l \in LangsOf(languages) \ Shown :
               \A k \in 1..n :
                 SizeIn(languages, l) <= SizeIn(languages, labels[k].lang)
          /\ \A k \in 1..n :
               2 * Abs(labels[k].pct_fmt * ShownTotal
                       - SizeIn(languages, labels[k].lang) * 10000)
                 <= ShownTotal
          /\ 2 * Abs(PctSum - 10000) <= n

\* a card over a tally with more than ten languages, with bytes below rank ten
C7_Witness ==
    /\ IsCard
    /\ Len(languages) > TopN
    /\ \E l \in LangsOf(languages) \ Shown : SizeIn(languages, l) > 0

BarsTotalNum == SumSeq([k \in 1..Len(langs_svg.bars) |->
                          langs_svg.bars[k].width_num])

Contiguous ==
    LET bars == langs_svg.bars
    IN  /\ Len(bars) = Len(langs_svg.labels)
        /\ Len(bars) > 0
        /\ bars[1].x_num = bar_x * langs_svg.total
        /\ \A k \in 1..Len(bars) :
             bars[k].lang = langs_svg.labels[k].lang
        /\ \A k \in 1..(Len(bars) - 1) :
             /\ bars[k + 1].x_num = bars[k].x_num + bars[k].width_num
             /\ SizeIn(languages, bars[k].lang)
                  >= SizeIn(languages, bars[k + 1].lang)

NoTinyShare ==
    \A l \in Shown : SizeIn(languages, l) * bar_width >= ShownTotal

AllPositive == \A k \in 1..Len(languages) : languages[k].size > 0

\* C8 as stated, on the tallies without a zero size among those it covers:
\* every segment is size / total * bar width wide, so the segments add up to
\* the bar width and the last one ends at its right edge.
C8_WidthsProportional ==
    IsCard /\ AllPositive =>
      LET bars == langs_svg.bars
          last == bars[Len(bars)]
      IN  /\ Contiguous
          /\ \A k \in 1..Len(bars) :
               bars[k].width_num = SizeIn(languages, bars[k].lang) * bar_width
          /\ BarsTotalNum = bar_width * ShownTotal
          /\ last.x_num + last.width_num = (bar_x + bar_width) * ShownTotal

\* C8 amended: every segment is max(size / total * bar width, 1) wide, the
\* segments follow each other from x = 30 in descending order of size, they
\* add up to at least the bar width, and to exactly the bar width (the last
\* one ending at the right edge) exactly when no language shown has a share
\* under 1 / bar width.
C8_WidthsClamped ==
    IsCard =>
      LET bars == langs_svg.bars
          last == bars[Len(bars)]
      IN  /\ Contiguous
          /\ \A k \in 1..Len(bars) :
               LET share_num == SizeIn(languages, bars[k].lang) * bar_width
               IN  /\ bars[k].width_num >= share_num
                   /\ bars[k].width_num >= ShownTotal
                   /\ bars[k].width_num \in {share_num, ShownTotal}
          /\ BarsTotalNum >= bar_width * ShownTotal
          /\ last.x_num + last.width_num = bar_x * ShownTotal + BarsTotalNum
          /\ (BarsTotalNum = bar_width * ShownTotal) <=> NoTinyShare

\* a card with a segment held at the minimum width next to a proportional one
C8_Witness ==
    /\ IsCard
    /\ AllPositive
    /\ ~NoTinyShare
    /\ \E l \in Shown : SizeIn(languages, l) * bar_width > ShownTotal

AllZero == \A k \in 1..Len(languages) : languages[k].size = 0

\* C9: generate_langs_svg raises no ZeroDivisionError; a tally that is empty
\* or all zeros gives the placeholder document, and any other tally gives a
\* card whose shares are taken of a strictly positive total.
C9_NoDivisionByZero ==
    Rendered =>
      /\ langs_svg.raised = "none"
      /\ AllZero => langs_svg = EmptySvg
      /\ ~AllZero => /\ langs_svg.kind = "card"
                     /\ langs_svg.total > 0
                     /\ langs_svg.total = ShownTotal

\* the placeholder for a tally that has languages, all of size zero
C9_Witness ==
    /\ Rendered
    /\ Len(languages) > 1
    /\ AllZero
    /\ langs_svg.kind = "empty"

LogRepos == {scan_log[k].repo : k \in 1..Len(scan_log)}

\* C1 as stated, on the runs whose identity and yearly queries all
\* succeeded: no repository name is handed to get_contributor_stats (and
\* added to the totals) more than once in a run.
C1_ScannedAtMostOnce ==
    ~core_failed =>
    \A j \in 1..Len(scan_log) : \A k \in 1..Len(scan_log) :
      j # k => scan_log[j].repo # scan_log[k].repo

Contributed(e) == e.a + e.d > 0

MainLangs == UNION {LangsOf(b) : b \in LangBodies}

\* C2: get_repo_languages is called only for a repository whose statistics
\* came back with additions + deletions > 0, a repository with (0, 0) adds
\* nothing to the tally, and at every point the tally holds, per language,
\* the sum of the bytes returned for the scanned repositories with
\* additions + deletions > 0.
C2_ZeroStatsAddNoLanguages ==
    /\ \A k \in 1..Len(scan_log) :
         /\ scan_log[k].fetched => Contributed(scan_log[k])
         /\ ~Contributed(scan_log[k]) => scan_log[k].langs = <<>>
    /\ pc = "langs" => /\ Len(scan_log) > 0
                       /\ scan_log[Len(scan_log)].repo = cur
                       /\ Contributed(scan_log[Len(scan_log)])
    /\ Cardinality(LangsOf(languages)) = Len(languages)
    /\ \A l \in MainLangs \cup LangsOf(languages) :
         SizeIn(languages, l) =
           SumSeq([k \in 1..Len(scan_log) |->
                     IF Contributed(scan_log[k])
                     THEN SizeIn(scan_log[k].langs, l) ELSE 0])

\* a finished run that scanned a repository with (0, 0) and one whose
\* languages went into the tally
C2_Witness ==
    /\ pc = "done"
    /\ \E k \in 1..Len(scan_log) : ~Contributed(scan_log[k])
    /\ \E k \in 1..Len(scan_log) :
         scan_log[k].fetched /\ scan_log[k].langs # <<>>
    /\ languages # <<>>

\* C3: one get_contributor_stats call issues at most 3 requests, issues
\* another one only after a 202, and after three 202 answers it returns
\* (0, 0) without raising.
C3_PollingBounded ==
    /\ Len(polled) <= 3
    /\ \A k \in 1..(Len(polled) - 1) : polled[k] = 202
    /\ pc = "poll" => /\ Len(polled) < 3
                      /\ \A k \in 1..Len(polled) : polled[k] = 202
    /\ polled = <<202, 202, 202>> =>
         /\ pc # "poll"
         /\ abort_cause # "stats"
         /\ Len(scan_log) > 0
         /\ scan_log[Len(scan_log)] =
              [repo |-> cur, a |-> 0, d |-> 0, fetched |-> FALSE,
               langs |-> <<>>]

\* a call that was answered 202 three times
C3_Witness == polled = <<202, 202, 202>> /\ pc \in {"personal", "contrib"}

\* C4 as stated, on the runs whose identity and yearly queries all
\* succeeded: no failure of a repository's contributor-stats or languages
\* call ends the run.
C4_RepoFailureDoesNotAbort ==
    ~core_failed => abort_cause \notin {"stats", "langs"}

Written == files.stats \/ files.langs

\* C5 as stated: after a failed identity or yearly query no statistics are
\* assembled and no file is written.
C5_CoreFailureAborts ==
    core_failed => /\ pc \notin {"write_stats", "write_langs", "done"}
                   /\ ~Written

StarLogSum == SumSeq([k \in 1..Len(star_log) |-> star_log[k].stars])

PersonalSum == SumSeq([k \in 1..Len(user_repos) |->
                         user_repos[k].stargazerCount])

\* C6: get_repo_stars is called for the entries of STAR_REPOS in order and
\* for nothing else; once that loop is over the star total is the sum of the
\* personal stargazerCount values plus the sum of the values those calls
\* returned, and that is the number put in the stats and printed.
C6_StarsTotal ==
    /\ Len(star_log) <= Len(STAR_REPOS)
    /\ \A k \in 1..Len(star_log) : star_log[k].repo = STAR_REPOS[k]
    /\ org_stars = StarLogSum
    /\ pc \in {"personal", "contrib", "poll", "langs", "write_stats",
               "write_langs", "done"} =>
         /\ Len(star_log) = Len(STAR_REPOS)
         /\ total_stars = PersonalSum + StarLogSum
    /\ pc \in {"write_stats", "write_langs", "done"} =>
         /\ stats.stars = PersonalSum + StarLogSum
         /\ stats_svg[1].value = format_number(PersonalSum + StarLogSum)

\* a finished run with stars from both sources and a scanned repository
\* that is not on the allow-list
C6_Witness ==
    /\ pc = "done"
    /\ PersonalSum > 0
    /\ StarLogSum > 0
    /\ \E r \in LogRepos : \A k \in 1..Len(STAR_REPOS) : STAR_REPOS[k] # r

Rank ==
    CASE pc = "makedirs" -> 0
      [] pc = "year" -> 1
      [] pc = "user_repos" -> 2
      [] pc = "star" -> 3
      [] pc = "personal" -> 4
      [] pc \in {"poll", "langs"} /\ ret = "personal" -> 4
      [] pc = "contrib" -> 5
      [] pc \in {"poll", "langs"} /\ ret = "contrib" -> 5
      [] pc = "write_stats" -> 6
      [] pc = "write_langs" -> 7
      [] pc = "done" -> 8
      [] OTHER -> 9

RemoteCall ==
    FetchYear \/ FetchUserRepos \/ FetchStars \/ PollStats \/ FetchLangs

FetchAborted ==
    abort_cause \in {"contributions", "user_repos", "stars", "stats", "langs"}

\* C10: the run goes through its steps in the one order (totals, personal
\* repositories, allow-listed stars, personal scan, contribution scan,
\* render, write) without going back or leaving one out; a file exists only
\* once every fetch is over, stats.svg before top-langs.svg; no remote call
\* follows the first write; a run a fetch aborted has written neither file.
C10_LinearRun ==
    /\ [](Written => /\ pc \in {"write_langs", "done", "aborted"}
                     /\ files.dir)
    /\ [](files.langs => files.stats)
    /\ [](FetchAborted => pc = "aborted" /\ ~Written)
    /\ [][pc' # "aborted" => Rank' \in {Rank, Rank + 1}]_vars
    /\ [][Written => ~RemoteCall]_vars

\* a finished run that made every kind of remote call and wrote both files
C10_Witness ==
    /\ pc = "done"
    /\ files.stats /\ files.langs
    /\ star_log # <<>>
    /\ \E k \in 1..Len(scan_log) : scan_log[k].fetched

====
